---- MODULE Spec2Model ----
(***************************************************************************)
(* Model of robot_client/pf400_client.py: the PF400 TCP client.            *)
(*                                                                         *)
(* The client is single-threaded and blocking, so every public method is   *)
(* one action.  A method is modelled as a function on a "machine" record m *)
(* that threads the socket-level trace, the log, the set of sockets opened *)
(* and not closed, the raised exception (if any) and the location table    *)
(* through the statements of the method, in source order.  The network is  *)
(* the environment: a fault plan says which connection of the call fails   *)
(* and where (socket(), connect(), send() or recv()), and a reply string   *)
(* is what the robot answers.                                              *)
(*                                                                         *)
(* Python strings are TLA+ strings; split, int(), str() and upper() are    *)
(* computed character by character.                                        *)
(***************************************************************************)
EXTENDS Integers, Sequences, FiniteSets, TLC

VARIABLES
    location_dictionary,  \* self.location_dictionary: name -> joint values
    open_sockets,         \* number of sockets created and never close()d
    pc,                   \* "idle": the caller may call; "done": a call ended
    call,                 \* the method called last and its arguments
    trace,                \* socket-level events of that call, in order
    log,                  \* records written to self.logger by that call
    result,               \* what the caller got: a return value or an exception
    teach_count           \* number of teach_location calls made so far

vars == <<location_dictionary, open_sockets, pc, call, trace, log, result, teach_count>>

---------------------------------------------------------------------------
(* Bounds of the exploration *)

\* teach_location is called at most this many times in one behaviour
MaxTeach == 1
\* a method is called only while at most this many leaked sockets are open
MaxLeaked == 1

---------------------------------------------------------------------------
(* Python string functions *)

Digits == <<"0", "1", "2", "3", "4", "5", "6", "7", "8", "9">>

IsDigit(c) == \E i \in 1..10 : Digits[i] = c

DigitValue(c) == (CHOOSE i \in 1..10 : Digits[i] = c) - 1

IsSpace(c) == c \in {" ", "\n", "\r", "\t"}

\* str.split(sep) for a one-character separator: every occurrence splits,
\* so "" gives [""] and "a  b" gives ["a", "", "b"]
RECURSIVE SplitFrom(_, _, _)
SplitFrom(s, sep, cur) ==
    IF s = "" THEN <<cur>>
    ELSE IF Head(s) = sep THEN <<cur>> \o SplitFrom(Tail(s), sep, "")
    ELSE SplitFrom(Tail(s), sep, cur \o Head(s))

Split(s, sep) == SplitFrom(s, sep, "")

\* str.strip() of whitespace, as int() applies it to its argument
RECURSIVE LStrip(_)
LStrip(s) == IF s # "" /\ IsSpace(Head(s)) THEN LStrip(Tail(s)) ELSE s

RECURSIVE RStrip(_)
RStrip(s) ==
    IF s # "" /\ IsSpace(SubSeq(s, Len(s), Len(s)))
    THEN RStrip(SubSeq(s, 1, Len(s) - 1)) ELSE s

Strip(s) == RStrip(LStrip(s))

AllDigits(s) == s # "" /\ \A i \in 1..Len(s) : IsDigit(SubSeq(s, i, i))

RECURSIVE DigitsValue(_, _)
DigitsValue(s, acc) ==
    IF s = "" THEN acc ELSE DigitsValue(Tail(s), 10 * acc + DigitValue(Head(s)))

\* int() of a stripped string: optional sign, decimal digits; anything else
\* raises ValueError (ok = FALSE)
ParseStripped(t) ==
    LET signed == t # "" /\ Head(t) \in {"-", "+"}
        body == IF signed THEN Tail(t) ELSE t
    IN IF AllDigits(body)
       THEN [ok |-> TRUE,
             val |-> IF signed /\ Head(t) = "-" THEN 0 - DigitsValue(body, 0)
                     ELSE DigitsValue(body, 0)]
       ELSE [ok |-> FALSE, val |-> 0]

\* int(s): surrounding whitespace is ignored
ParseInt(s) == ParseStripped(Strip(s))

\* one more element of map(int, ...): ValueError at the first bad token
ConsInt(h, r) ==
    IF h.ok /\ r.ok THEN [ok |-> TRUE, val |-> <<h.val>> \o r.val]
    ELSE [ok |-> FALSE, val |-> <<>>]

\* list(map(int, tokens)): the list, or ValueError
RECURSIVE MapInt(_)
MapInt(tokens) ==
    IF tokens = <<>> THEN [ok |-> TRUE, val |-> <<>>]
    ELSE ConsInt(ParseInt(Head(tokens)), MapInt(Tail(tokens)))

Lowercase == <<"a", "b", "c", "d", "e", "f", "g", "h", "i", "j", "k", "l", "m",
               "n", "o", "p", "q", "r", "s", "t", "u", "v", "w", "x", "y", "z">>

Uppercase == <<"A", "B", "C", "D", "E", "F", "G", "H", "I", "J", "K", "L", "M",
               "N", "O", "P", "Q", "R", "S", "T", "U", "V", "W", "X", "Y", "Z">>

UpperChar(c) ==
    IF \E i \in 1..26 : Lowercase[i] = c
    THEN Uppercase[CHOOSE i \in 1..26 : Lowercase[i] = c]
    ELSE c

\* str.upper()
RECURSIVE Upper(_)
Upper(s) == IF s = "" THEN "" ELSE UpperChar(Head(s)) \o Upper(Tail(s))

\* str(x) of an int
Str(x) == ToString(x)

\* an optional value: None, or a str
None == [some |-> FALSE, val |-> ""]

Some(s) == [some |-> TRUE, val |-> s]

---------------------------------------------------------------------------
(* Configuration loaded by load_robot_data (utils/robot_data.json)         *)

\* data["Robot_Data"][0]["motion_profile"]: two dicts of 8 parameters each,
\* in insertion order
motion_profile == << <<30, 100, 100, 10, 20, 0, 0, -1>>,
                     <<90, 200, 200, 20, 40, 0, 0, -1>> >>

StationIDs == {1, 2, 3}

StationKeys == {"_front", "_above_plate", "_pick_plate", "_plate_rack",
                "_approach_plate_rack", "_front_plate_rack"}

LocationNames ==
    {"HomeALL", "Completed_plate", "Completed_plate_above"}
    \cup {"OT2_" \o Str(i) \o k : i \in StationIDs, k \in StationKeys}

\* data["Robot_Data"][0]["locations"][0]: every location has its own values
JointBase(name) ==
    IF name = "HomeALL" THEN 10
    ELSE IF name = "Completed_plate" THEN 20
    ELSE IF name = "Completed_plate_above" THEN 30
    ELSE LET ik == CHOOSE p \in StationIDs \X StationKeys :
                       name = "OT2_" \o Str(p[1]) \o p[2]
         IN 100 * ik[1]
            + (IF ik[2] = "_front" THEN 10
               ELSE IF ik[2] = "_above_plate" THEN 20
               ELSE IF ik[2] = "_pick_plate" THEN 30
               ELSE IF ik[2] = "_plate_rack" THEN 40
               ELSE IF ik[2] = "_approach_plate_rack" THEN 50
               ELSE 60)

locations ==
    [name \in LocationNames |->
        IF name = "HomeALL"
        THEN <<JointBase(name) + 1, JointBase(name) + 2, JointBase(name) + 3,
               JointBase(name) + 4>>
        ELSE <<JointBase(name) + 1, JointBase(name) + 2, JointBase(name) + 3,
               JointBase(name) + 4, JointBase(name) + 5, JointBase(name) + 6>>]

---------------------------------------------------------------------------
(* The environment: network faults and robot replies                       *)

FaultKinds == {"socket", "connect", "send", "recv"}

NoFault == [at |-> 0, kind |-> "none", persist |-> FALSE]

\* no fault; a fault on the c-th connection of the call only; or an outage
\* that hits the c-th connection and every later one in the same way
FaultPlans(cycles) ==
    {NoFault} \cup [at : 1..cycles, kind : FaultKinds, persist : BOOLEAN]

FaultAt(plan, k) ==
    IF plan.kind # "none" /\ (k = plan.at \/ (plan.persist /\ k > plan.at))
    THEN plan.kind ELSE "none"

---------------------------------------------------------------------------
(* The machine record threaded through a call                              *)

Ev(ev, sock, data) == [ev |-> ev, sock |-> sock, data |-> data]

LogRec(level, msg) == [level |-> level, msg |-> msg]

\* sock: the value connect_robot returned last (0 is None, k the k-th socket)
Machine(table, plan, reply) ==
    [table |-> table, plan |-> plan, reply |-> reply,
     trace |-> <<>>, log |-> <<>>, open |-> {}, n |-> 0, sock |-> 0,
     status |-> "run", exc |-> "",
     msg |-> None, cmd |-> "", coords |-> <<>>]

Running(m) == m.status = "run"

Raise(m, exc) == [m EXCEPT !.status = "raised", !.exc = exc]

Info(m, msg) == [m EXCEPT !.log = Append(@, LogRec("info", msg))]

Error(m, msg) == [m EXCEPT !.log = Append(@, LogRec("error", msg))]

---------------------------------------------------------------------------
(* connect_robot / disconnect_robot and the try/except/else of a command   *)

\* connect_robot: socket() failing is logged and None is returned; connect()
\* is in the else branch, outside the try, so its error propagates and the
\* socket just created stays open
connect_robot(m) ==
    IF ~Running(m) THEN m
    ELSE LET k == m.n + 1
             f == FaultAt(m.plan, k)
             m1 == [m EXCEPT !.n = k]
         IN IF f = "socket"
            THEN Error([m1 EXCEPT !.trace = Append(@, Ev("socket_fail", k, "")),
                                  !.sock = 0],
                       "Failed to create socket")
            ELSE IF f = "connect"
            THEN Raise([m1 EXCEPT !.trace = @ \o <<Ev("socket", k, ""),
                                                   Ev("connect_fail", k, "")>>,
                                  !.open = @ \cup {k}],
                       "OSError")
            ELSE [m1 EXCEPT !.trace = @ \o <<Ev("socket", k, ""),
                                             Ev("connect", k, "")>>,
                            !.open = @ \cup {k},
                            !.sock = k]

disconnect_robot(m, s) ==
    [m EXCEPT !.trace = Append(@, Ev("close", s, "")), !.open = @ \ {s}]

\* The block every method but send_command and locate_robot repeats:
\*     try:    PF400.send(command); out = PF400.recv(4096).decode(); log out; oklogs
\*     except socket.error as err: self.logger.error(errmsg.format(err))
\*     else:   self.disconnect_robot(PF400)
\* PF400 is m.sock; None.send raises AttributeError, which is not caught
Transact(m, command, errmsg, oklogs) ==
    IF ~Running(m) THEN m
    ELSE IF m.sock = 0 THEN Raise(m, "AttributeError")
    ELSE LET s == m.sock
             f == FaultAt(m.plan, s)
         IN IF f = "send"
            THEN Error([m EXCEPT !.trace = Append(@, Ev("send_fail", s, command))],
                       errmsg \o f)
            ELSE IF f = "recv"
            THEN Error([m EXCEPT !.trace = @ \o <<Ev("send", s, command),
                                                  Ev("recv_fail", s, "")>>],
                       errmsg \o f)
            ELSE disconnect_robot(
                     [m EXCEPT !.trace = @ \o <<Ev("send", s, command),
                                                Ev("recv", s, m.reply)>>,
                               !.log = @ \o <<LogRec("info", m.reply)>> \o oklogs],
                     s)

---------------------------------------------------------------------------
(* send_command and the lifecycle methods                                  *)

\* the except clause of send_command: log, then fall off the end (return None)
send_command_except(m, command_name, f) ==
    [Error([m EXCEPT !.status = "run", !.exc = ""],
           "Failed to send the command [" \o command_name \o "]! ERROR: " \o f)
        EXCEPT !.msg = None]

\* lines 92-104 after the second connect_robot: line 94 reads log_msg, which
\* is no name of the method, so a call that gets that far raises NameError and
\* the else branch (disconnect, return output_msg) is never reached
send_command_second(m3, command_name, guarded) ==
    IF ~Running(m3)
    THEN (IF guarded THEN send_command_except(m3, command_name, "connect") ELSE m3)
    ELSE Raise(m3, "NameError")

\* lines 83-92 on the socket of the first connect_robot
send_command_first(m1, command_name, guarded) ==
    LET s == m1.sock
        f1 == FaultAt(m1.plan, s)
    IN IF ~Running(m1) THEN m1
       ELSE IF s = 0 THEN Raise(m1, "AttributeError")
       ELSE IF f1 = "send"
       THEN (IF guarded
             THEN send_command_except(
                      [m1 EXCEPT !.trace = Append(@, Ev("send_fail", s, command_name))],
                      command_name, f1)
             ELSE Raise([m1 EXCEPT !.trace = Append(@, Ev("send_fail", s, command_name))],
                        "OSError"))
       ELSE IF f1 = "recv"
       THEN (IF guarded
             THEN send_command_except(
                      [m1 EXCEPT !.trace = @ \o <<Ev("send", s, command_name),
                                                  Ev("recv_fail", s, "")>>],
                      command_name, f1)
             ELSE Raise([m1 EXCEPT !.trace = @ \o <<Ev("send", s, command_name),
                                                    Ev("recv_fail", s, "")>>],
                        "OSError"))
       ELSE send_command_second(
                connect_robot(
                    [m1 EXCEPT
                        !.trace = @ \o <<Ev("send", s, command_name),
                                         Ev("recv", s, m1.reply)>>,
                        !.log = @ \o <<LogRec("info", m1.reply),
                                       LogRec("info", "New command sent to the robot "
                                                      \o command_name)>>]),
                command_name, guarded)

\* send_command(self, command_name), statement by statement.  The body holds
\* two connect/try sequences and one except/else pair: guarded = TRUE reads
\* the except clause as covering both try bodies, guarded = FALSE as covering
\* the second only.  nargs is the number of arguments of the call.
send_command(m, nargs, command_name, guarded) ==
    IF ~Running(m) THEN m
    ELSE IF nargs # 1 THEN Raise(m, "TypeError")
    ELSE send_command_first(connect_robot(m), command_name, guarded)

\* str(output_msg) as .format renders it
MsgText(v) == IF v.some THEN v.val ELSE "None"

\* lines 112-115 of enable_power
enable_power_report(m1) ==
    IF ~Running(m1) THEN m1
    ELSE IF m1.msg = Some("0") THEN Info(m1, "Power enabled")
    ELSE Info(m1, "Error occurred while enabling power. Error code: " \o MsgText(m1.msg))

enable_power(m, guarded) ==
    enable_power_report(send_command(m, 1, "hp 1\n", guarded))

\* attach_robot and home_robot pass three arguments to send_command
attach_robot(m) == send_command(m, 3, "attach 1\n", FALSE)

home_robot(m) == send_command(m, 3, "home\n", FALSE)

\* ' ' + str(value) for every value of the dict, in order
RECURSIVE JoinValues(_)
JoinValues(values) ==
    IF values = <<>> THEN ""
    ELSE " " \o Str(Head(values)) \o JoinValues(Tail(values))

\* set_profile with the second default command built from the first profile
set_profile_same(m, profile_dict) ==
    IF ~Running(m) THEN m
    ELSE IF Len(profile_dict) = 1
    THEN Transact(
             connect_robot(
                 Transact(connect_robot(m),
                          "Profile 1" \o JoinValues(motion_profile[1]) \o "\n",
                          "Failed to set motion profile 1: ", <<>>)),
             "Profile 2" \o JoinValues(motion_profile[1]) \o "\n",
             "Failed to set motion profile 2: ", <<>>)
    ELSE IF Len(profile_dict) = 8
    THEN Transact(connect_robot(m), "Profile 3" \o JoinValues(profile_dict) \o "\n",
                  "Failed to set motion profile: ", <<>>)
    ELSE Raise(m, "Exception")

\* set_profile(profile_dict): profile_dict is modelled by its values in order
set_profile(m, profile_dict) ==
    IF ~Running(m) THEN m
    ELSE IF Len(profile_dict) = 1
    THEN Transact(
             connect_robot(
                 Transact(
                     connect_robot(
                         Info(m, "Setting defult values to the motion profile 1 and 2")),
                     "Profile 1" \o JoinValues(motion_profile[1]) \o "\n",
                     "Failed to set motion profile 1: ", <<>>)),
             "Profile 2" \o JoinValues(motion_profile[2]) \o "\n",
             "Failed to set motion profile 2: ", <<>>)
    ELSE IF Len(profile_dict) = 8
    THEN Transact(
             connect_robot(Info(m, "Setting new values to the motion profile 1")),
             "Profile 3" \o JoinValues(profile_dict) \o "\n",
             "Failed to set motion profile: ", <<>>)
    ELSE Raise(m, "Exception")

\* out_msg is the decoded reply, a str, which is never None
check_robot_heartbeat(m) ==
    Transact(connect_robot(m), "nop\n", "Failed to check robot heartbeat: ",
             IF Some(m.reply) # None THEN <<LogRec("info", "Robot is alive")>>
             ELSE <<LogRec("warning", "Lost robot heartbeat")>>)

stop_robot(m) ==
    Transact(connect_robot(m), "halt\n", "Failed to stop robot : ", <<>>)

set_speed(m, speed) ==
    Transact(connect_robot(m), "mspeed" \o Str(speed) \o "\n", "Failed to send data: ", <<>>)

\* lines 156-158 of initialize_robot: self.check_robot_state is no attribute
\* of PF400, so the completion message of line 158 is never logged
initialize_robot_check(m4) ==
    IF ~Running(m4) THEN m4 ELSE Raise(m4, "AttributeError")

\* initialize_robot: the time.sleep calls between the steps change no state
initialize_robot(m, guarded) ==
    initialize_robot_check(
        set_profile(home_robot(attach_robot(enable_power(m, guarded))), <<0>>))

---------------------------------------------------------------------------
(* Motion command formatting                                               *)

\* "count == 4": the index of the gripper joint in a location
GripperIndex == 4

\* str(120.0) and str(127.0)
GrabValue == "120.0"

ReleaseValue == "127.0"

\* the for loop of set_move_command over enumerate(location), from count on
RECURSIVE MoveArgs(_, _, _, _)
MoveArgs(values, count, grab, release) ==
    IF values = <<>> THEN ""
    ELSE " " \o (IF grab /\ count = GripperIndex THEN GrabValue
                 ELSE IF release /\ count = GripperIndex THEN ReleaseValue
                 ELSE Str(Head(values)))
             \o MoveArgs(Tail(values), count + 1, grab, release)

\* set_move_command with enumerate counting from 1, which moves the override
\* one joint down
set_move_command_from1(table, robot_location, profile, grab, release) ==
    IF profile \notin {1, 2, 3} THEN [exc |-> "Exception", cmd |-> ""]
    ELSE IF robot_location \notin DOMAIN table THEN [exc |-> "KeyError", cmd |-> ""]
    ELSE [exc |-> "",
          cmd |-> "MoveJ " \o Str(profile)
                  \o MoveArgs(table[robot_location], 1, grab, release) \o "\n"]

\* set_move_command: the command, or the exception it raises (exc # "")
set_move_command(table, robot_location, profile, grab, release) ==
    IF profile \notin {1, 2, 3} THEN [exc |-> "Exception", cmd |-> ""]
    ELSE IF robot_location \notin DOMAIN table THEN [exc |-> "KeyError", cmd |-> ""]
    ELSE [exc |-> "",
          cmd |-> "MoveJ " \o Str(profile)
                  \o MoveArgs(table[robot_location], 0, grab, release) \o "\n"]

\* one more command built: the first exception ends the building
ConsCommand(h, r) ==
    IF h.exc # "" THEN [exc |-> h.exc, cmds |-> <<>>]
    ELSE IF r.exc # "" THEN r
    ELSE [exc |-> "", cmds |-> <<h.cmd>> \o r.cmds]

\* consecutive set_move_command calls: the commands, or the first exception
RECURSIVE BuildAll(_, _)
BuildAll(table, reqs) ==
    IF reqs = <<>> THEN [exc |-> "", cmds |-> <<>>]
    ELSE ConsCommand(set_move_command(table, Head(reqs)[1], Head(reqs)[2],
                                      Head(reqs)[3], Head(reqs)[4]),
                     BuildAll(table, Tail(reqs)))

---------------------------------------------------------------------------
(* Routines                                                                *)

\* "for count, command in enumerate(commands)": connect, send, receive, close
RECURSIVE MoveLoop(_, _, _, _)
MoveLoop(m, commands, count, tag) ==
    IF ~Running(m) \/ count >= Len(commands) THEN m
    ELSE MoveLoop(
             Transact(connect_robot(m), commands[count + 1], "Failed move the robot ",
                      <<LogRec("info", tag \o " Robot is moved to the "
                                       \o Str(count + 1) \o "th location")>>),
             commands, count + 1, tag)

Slow(profile) == IF profile = 3 THEN 3 ELSE 1

Fast(profile) == IF profile = 3 THEN 3 ELSE 2

OT2(ot2_ID, key) == "OT2_" \o Str(ot2_ID) \o key

\* line 335 reads "pick_up_commands = [move_front, above_plate] ......": the
\* list the loop runs over holds the first two of the six commands built
pick_up_list(built) ==
    IF built.exc # "" THEN built
    ELSE [exc |-> "", cmds |-> <<built.cmds[1], built.cmds[2]>>]

\* the commands pick_plate_ot2 builds, and the list its loop runs over
pick_up_commands(table, ot2_ID, profile) ==
    LET slow == Slow(profile)
        fast == Fast(profile)
    IN pick_up_list(
           BuildAll(table,
               << <<OT2(ot2_ID, "_front"), fast, FALSE, FALSE>>,
                  <<OT2(ot2_ID, "_above_plate"), fast, FALSE, FALSE>>,
                  <<OT2(ot2_ID, "_pick_plate"), fast, FALSE, FALSE>>,
                  <<OT2(ot2_ID, "_pick_plate"), slow, TRUE, FALSE>>,
                  <<OT2(ot2_ID, "_above_plate"), slow, TRUE, FALSE>>,
                  <<OT2(ot2_ID, "_front"), slow, TRUE, FALSE>> >>))

\* drop_commands of drop_plate_ot2
drop_commands(table, ot2_ID, profile) ==
    LET slow == Slow(profile)
        fast == Fast(profile)
    IN BuildAll(table,
           << <<OT2(ot2_ID, "_front"), slow, TRUE, FALSE>>,
              <<OT2(ot2_ID, "_above_plate"), slow, TRUE, FALSE>>,
              <<OT2(ot2_ID, "_pick_plate"), slow, TRUE, FALSE>>,
              <<OT2(ot2_ID, "_pick_plate"), slow, FALSE, TRUE>>,
              <<OT2(ot2_ID, "_above_plate"), fast, FALSE, FALSE>>,
              <<OT2(ot2_ID, "_front"), fast, FALSE, FALSE>> >>)

\* drop_commands of pick_plate_from_rack
rack_commands(table, ot2_ID, profile) ==
    LET slow == Slow(profile)
        fast == Fast(profile)
    IN BuildAll(table,
           << <<OT2(ot2_ID, "_approach_plate_rack"), fast, FALSE, FALSE>>,
              <<OT2(ot2_ID, "_front_plate_rack"), slow, FALSE, FALSE>>,
              <<OT2(ot2_ID, "_plate_rack"), slow, FALSE, FALSE>>,
              <<OT2(ot2_ID, "_plate_rack"), slow, TRUE, FALSE>>,
              <<OT2(ot2_ID, "_front_plate_rack"), slow, TRUE, FALSE>>,
              <<OT2(ot2_ID, "_approach_plate_rack"), slow, TRUE, FALSE>> >>)

\* drop_commands of drop_complete_plate
complete_commands(table, profile) ==
    LET slow == Slow(profile)
    IN BuildAll(table,
           << <<"Completed_plate_above", slow, TRUE, FALSE>>,
              <<"Completed_plate", slow, TRUE, FALSE>>,
              <<"Completed_plate", slow, FALSE, TRUE>>,
              <<"Completed_plate_above", slow, FALSE, FALSE>> >>)

\* a routine: the commands are all built first (an exception there ends the
\* call before any connection), then sent one by one
Routine(m, built, tag) ==
    IF ~Running(m) THEN m
    ELSE IF built.exc # "" THEN Raise(m, built.exc)
    ELSE MoveLoop(m, built.cmds, 0, tag)

pick_plate_ot2(m, ot2_ID, profile) ==
    Routine(m, pick_up_commands(m.table, ot2_ID, profile),
            "[pick_plate_ot2 ID:" \o Str(ot2_ID) \o "]")

drop_plate_ot2(m, ot2_ID, profile) ==
    Routine(m, drop_commands(m.table, ot2_ID, profile),
            "[pick_plate_ot2 ID:" \o Str(ot2_ID) \o "]")

pick_plate_from_rack(m, ot2_ID, profile) ==
    Routine(m, rack_commands(m.table, ot2_ID, profile),
            "[pick_plate_from_rack ID:" \o Str(ot2_ID) \o "]")

drop_complete_plate(m, profile) ==
    Routine(m, complete_commands(m.table, profile), "[drop_complete_plate]")

\* lines 468-479 of move_single, after the connect and the command building
move_single_send(m1, built, target_location) ==
    IF ~Running(m1) THEN m1
    ELSE IF built.exc # "" THEN Raise(m1, built.exc)
    ELSE Transact(m1, built.cmd, "Failed move the robot ",
                  <<LogRec("info", "Robot is moved to the " \o target_location
                                   \o " location")>>)

\* move_single connects before it builds the command
move_single(m, target_location, profile, grap, release) ==
    move_single_send(connect_robot(m),
                     set_move_command(m.table, target_location, profile, grap, release),
                     target_location)

\* program_robot_target: an if/elif on job.upper() with no else branch; the
\* time.sleep calls of the full transfer change no state
program_robot_target(m, job, robot_ID_list) ==
    IF ~Running(m) THEN m
    ELSE IF Upper(job) = "TRANSFER"
    THEN drop_plate_ot2(
             pick_plate_ot2(
                 move_single(
                     Info(m, "Executing plate transfer between OT2 ID: "
                             \o Str(robot_ID_list[1]) \o " and OT2 ID: "
                             \o Str(robot_ID_list[2])),
                     "HomeALL", 2, FALSE, FALSE),
                 robot_ID_list[1], 0),
             robot_ID_list[2], 0)
    ELSE IF Upper(job) = "FULL_TRANSFER"
    THEN drop_complete_plate(
          pick_plate_ot2(
           drop_plate_ot2(
            pick_plate_ot2(
             drop_plate_ot2(
              pick_plate_ot2(
               drop_plate_ot2(
                pick_plate_from_rack(
                 move_single(Info(m, "Executing full transfer"),
                             "HomeALL", 2, FALSE, FALSE),
                 1, 0),
                1, 0),
               1, 0),
              2, 0),
             2, 0),
            3, 0),
           3, 0),
          0)
    ELSE m

---------------------------------------------------------------------------
(* locate and teach                                                        *)

\* the try of locate_robot with coordinate_list bound to zeros before it, so
\* that a caught socket.error returns that list instead of raising
locate_robot_try_zeros(m1, parsed) ==
    LET s == m1.sock
        f == FaultAt(m1.plan, s)
    IN IF ~Running(m1) THEN m1
       ELSE IF s = 0 THEN Raise(m1, "AttributeError")
       ELSE IF f \in {"send", "recv"}
       THEN [Error([m1 EXCEPT !.trace = Append(@, Ev(f \o "_fail", s, ""))],
                   "Failed to find robot location: " \o f)
                EXCEPT !.coords = <<0, 0, 0, 0, 0, 0>>]
       ELSE IF ~parsed.ok
       THEN Raise([m1 EXCEPT !.trace = @ \o <<Ev("send", s, "wherej\n"),
                                              Ev("recv", s, m1.reply)>>,
                             !.log = Append(@, LogRec("info", m1.reply))],
                  "ValueError")
       ELSE [disconnect_robot(
                 [m1 EXCEPT !.trace = @ \o <<Ev("send", s, "wherej\n"),
                                             Ev("recv", s, m1.reply)>>,
                            !.log = Append(@, LogRec("info", m1.reply))], s)
                EXCEPT !.coords = parsed.val]

locate_robot_zeros(m) ==
    locate_robot_try_zeros(connect_robot(m), MapInt(Split(m.reply, " ")))

\* lines 553-565 of locate_robot: the parse is inside the try, where only
\* socket.error is caught; "return coordinate_list" follows the try
\* statement, so after a caught socket.error the name is unbound
locate_robot_try(m1, parsed) ==
    LET s == m1.sock
        f == FaultAt(m1.plan, s)
    IN IF ~Running(m1) THEN m1
       ELSE IF s = 0 THEN Raise(m1, "AttributeError")
       ELSE IF f = "send"
       THEN Raise(Error([m1 EXCEPT !.trace = Append(@, Ev("send_fail", s, "wherej\n"))],
                        "Failed to find robot location: " \o f),
                  "UnboundLocalError")
       ELSE IF f = "recv"
       THEN Raise(Error([m1 EXCEPT !.trace = @ \o <<Ev("send", s, "wherej\n"),
                                                    Ev("recv_fail", s, "")>>],
                        "Failed to find robot location: " \o f),
                  "UnboundLocalError")
       ELSE IF ~parsed.ok
       THEN Raise([m1 EXCEPT !.trace = @ \o <<Ev("send", s, "wherej\n"),
                                              Ev("recv", s, m1.reply)>>,
                             !.log = Append(@, LogRec("info", m1.reply))],
                  "ValueError")
       ELSE [disconnect_robot(
                 [m1 EXCEPT !.trace = @ \o <<Ev("send", s, "wherej\n"),
                                             Ev("recv", s, m1.reply)>>,
                            !.log = Append(@, LogRec("info", m1.reply))], s)
                EXCEPT !.coords = parsed.val]

\* locate_robot: connect, then the try on the reply the robot gives
locate_robot(m) ==
    locate_robot_try(connect_robot(m), MapInt(Split(m.reply, " ")))

\* location.lower == "...": the bound method str.lower compared with a str
LowerIs(location, name) == FALSE

\* "for count, loc in enumerate(entry): entry[count] = current_location[count]":
\* the entry after the loop, and the IndexError of a shorter current_location
CopyLoop(entry, current_location) ==
    [val |-> [i \in 1..Len(entry) |->
                 IF i <= Len(current_location) THEN current_location[i] ELSE entry[i]],
     exc |-> IF Len(current_location) < Len(entry) THEN "IndexError" ELSE ""]

\* the table entry replaced by what the loop left, and the loop's exception
TeachStore(m, key, c) ==
    IF c.exc # "" THEN Raise([m EXCEPT !.table = [@ EXCEPT ![key] = c.val]], c.exc)
    ELSE [m EXCEPT !.table = [@ EXCEPT ![key] = c.val]]

\* the loop applied to table[key]; KeyError when the key is absent
TeachKey(m, key, current_location) ==
    IF key \notin DOMAIN m.table THEN Raise(m, "KeyError")
    ELSE TeachStore(m, key, CopyLoop(m.table[key], current_location))

\* lines 588-589: the loop over location_dictionary[key_name], reached when
\* no exception was raised before it; key_name = "" stands for the unbound name
teach_location_loop(m2, key_name, current_location) ==
    IF ~Running(m2) THEN m2
    ELSE IF key_name = "" THEN Raise(m2, "UnboundLocalError")
    ELSE TeachKey(m2, key_name, current_location)

\* the chain with the PLATE_RACK branch a copy of the PICK_PLATE branch
KeyName_copied(location, robot_id) ==
    IF Upper(location) = "FRONT" THEN OT2(robot_id, "_front")
    ELSE IF Upper(location) = "ABOVE_PLATE" THEN OT2(robot_id, "_above_plate")
    ELSE IF Upper(location) = "PICK_PLATE" THEN OT2(robot_id, "_pick_plate")
    ELSE IF Upper(location) = "PLATE_RACK" THEN OT2(robot_id, "_pick_plate")
    ELSE ""

\* the if/elif chain on location.upper(): the key, or "" when key_name stays unbound
KeyName(location, robot_id) ==
    IF Upper(location) = "FRONT" THEN OT2(robot_id, "_front")
    ELSE IF Upper(location) = "ABOVE_PLATE" THEN OT2(robot_id, "_above_plate")
    ELSE IF Upper(location) = "PICK_PLATE" THEN OT2(robot_id, "_pick_plate")
    ELSE IF Upper(location) = "PLATE_RACK" THEN OT2(robot_id, "_plate_rack")
    ELSE ""

\* lines 571-586: the branch taken before the loop of line 588
teach_location_branch(m1, location, robot_id) ==
    IF ~robot_id.some
       /\ (LowerIs(location, "homeall") \/ LowerIs(location, "homearm")
           \/ LowerIs(location, "mobile_robot") \/ LowerIs(location, "trash"))
    THEN TeachKey(m1, location, m1.coords)
    ELSE IF robot_id.some THEN m1
    ELSE Raise(m1, "Exception")

\* "except Exception as err: self.logger.error(err)"
teach_location_except(m3) ==
    IF Running(m3) THEN m3
    ELSE Error([m3 EXCEPT !.status = "run", !.exc = ""], m3.exc)

\* lines 570-593 of teach_location, with current_location in m1.coords
teach_location_try(m1, location, robot_id) ==
    IF ~Running(m1) THEN m1
    ELSE teach_location_except(
             teach_location_loop(teach_location_branch(m1, location, robot_id),
                      IF robot_id.some THEN KeyName(location, robot_id.val) ELSE "",
                      m1.coords))

\* teach_location(location, robot_id): robot_id is None (some = FALSE) or an
\* int; an exception of locate_robot propagates, every Exception raised
\* inside the try is logged and swallowed
teach_location(m, location, robot_id) ==
    teach_location_try(locate_robot(m), location, robot_id)

---------------------------------------------------------------------------
(* Arguments and replies the caller and the robot are drawn from           *)

\* replies to a lifecycle command: success, an error code, nothing, and "0"
\* followed by further text
Replies == {"0", "-1009", "", "0\r\n"}

\* replies to wherej: as many values as a station location has joints, fewer,
\* a value that is no int, and nothing
LocateReplies == {"5 6 7 8 9 10", "1 2 3", "0 5.5 6", ""}

MoveTargets == {"HomeALL", "OT2_1_pick_plate", "Nowhere"}

Profiles == 0..4

RoutineIDs == {0, 1, 3}

RoutineProfiles == {0, 3}

\* program_robot_target(job, robot_ID_list); <<0, 0>> is the default list
ProgramCalls == {<<"TRANSFER", <<1, 2>>>>, <<"Transfer", <<2, 1>>>>,
                 <<"TRANSFER", <<0, 0>>>>, <<"transfer", <<1, 0>>>>,
                 <<"FULL_TRANSFER", <<0, 0>>>>, <<"full_transfer", <<0, 0>>>>,
                 <<"DANCE", <<0, 0>>>>}

\* profile_dict arguments: the default {"0": 0}, eight values, and other sizes
ProfileDicts == {<<0>>, <<50, 150, 150, 15, 30, 0, 0, -1>>, <<>>, <<1, 2>>,
                 <<1, 2, 3, 4, 5, 6, 7, 8, 9>>}

Speeds == {10, 100}

TeachLocations == {"front", "Above_Plate", "PICK_PLATE", "plate_rack", "HomeALL", "bin"}

\* robot_id: None (the default), a station of the table, a station that is not
NoId == [some |-> FALSE, val |-> 0]

TeachIDs == {NoId, [some |-> TRUE, val |-> 1], [some |-> TRUE, val |-> 9]}

---------------------------------------------------------------------------
(* State machine                                                           *)

NoCall ==
    [op |-> "", loc |-> "", profile |-> 0, grab |-> FALSE, release |-> FALSE,
     id |-> 0, ids |-> <<0, 0>>, job |-> "", values |-> <<>>, speed |-> 0,
     rid |-> NoId, reply |-> "", plan |-> NoFault, guarded |-> FALSE]

NoResult == [kind |-> "none", exc |-> "", msg |-> None, cmd |-> "", coords |-> <<>>]

Init ==
    /\ location_dictionary = locations
    /\ open_sockets = 0
    /\ pc = "idle"
    /\ call = NoCall
    /\ trace = <<>>
    /\ log = <<>>
    /\ result = NoResult
    /\ teach_count = 0

CanCall == pc = "idle" /\ open_sockets <= MaxLeaked

Start(c) == Machine(location_dictionary, c.plan, c.reply)

\* the call c ended in machine m; ret is the value a normal return hands back
Finish(c, m, ret) ==
    /\ pc' = "done"
    /\ call' = c
    /\ trace' = m.trace
    /\ log' = m.log
    /\ result' = IF Running(m) THEN [ret EXCEPT !.kind = "returned"]
                 ELSE [NoResult EXCEPT !.kind = "raised", !.exc = m.exc]
    /\ location_dictionary' = m.table
    /\ open_sockets' = open_sockets + Cardinality(m.open)

\* send_command returns output_msg
FinishMsg(c, m) == Finish(c, m, [NoResult EXCEPT !.msg = m.msg])

\* set_move_command returns the command, or raises
FinishCmd(c, r) ==
    Finish(c, IF r.exc # "" THEN Raise(Start(c), r.exc) ELSE Start(c),
           [NoResult EXCEPT !.cmd = r.cmd])

\* locate_robot returns coordinate_list
FinishCoords(c, m) == Finish(c, m, [NoResult EXCEPT !.coords = m.coords])

SendCommand ==
    /\ CanCall
    /\ \E reply \in Replies, plan \in FaultPlans(2), guarded \in BOOLEAN,
          command_name \in {"hp 1\n", "wherej\n"} :
          LET c == [NoCall EXCEPT !.op = "send_command", !.loc = command_name,
                                  !.reply = reply, !.plan = plan, !.guarded = guarded]
          IN FinishMsg(c, send_command(Start(c), 1, command_name, guarded))
    /\ UNCHANGED teach_count

EnablePower ==
    /\ CanCall
    /\ \E reply \in Replies, plan \in FaultPlans(2), guarded \in BOOLEAN :
          LET c == [NoCall EXCEPT !.op = "enable_power", !.reply = reply,
                                  !.plan = plan, !.guarded = guarded]
          IN Finish(c, enable_power(Start(c), guarded), NoResult)
    /\ UNCHANGED teach_count

AttachRobot ==
    /\ CanCall
    /\ LET c == [NoCall EXCEPT !.op = "attach_robot", !.reply = "0"]
       IN Finish(c, attach_robot(Start(c)), NoResult)
    /\ UNCHANGED teach_count

HomeRobot ==
    /\ CanCall
    /\ LET c == [NoCall EXCEPT !.op = "home_robot", !.reply = "0"]
       IN Finish(c, home_robot(Start(c)), NoResult)
    /\ UNCHANGED teach_count

InitializeRobot ==
    /\ CanCall
    /\ \E reply \in Replies, plan \in FaultPlans(2), guarded \in BOOLEAN :
          LET c == [NoCall EXCEPT !.op = "initialize_robot", !.reply = reply,
                                  !.plan = plan, !.guarded = guarded]
          IN Finish(c, initialize_robot(Start(c), guarded), NoResult)
    /\ UNCHANGED teach_count

SetProfile ==
    /\ CanCall
    /\ \E profile_dict \in ProfileDicts, reply \in {"0", "-1009"}, plan \in FaultPlans(2) :
          LET c == [NoCall EXCEPT !.op = "set_profile", !.values = profile_dict,
                                  !.reply = reply, !.plan = plan]
          IN Finish(c, set_profile(Start(c), profile_dict), NoResult)
    /\ UNCHANGED teach_count

CheckRobotHeartbeat ==
    /\ CanCall
    /\ \E reply \in Replies, plan \in FaultPlans(1) :
          LET c == [NoCall EXCEPT !.op = "check_robot_heartbeat", !.reply = reply,
                                  !.plan = plan]
          IN Finish(c, check_robot_heartbeat(Start(c)), NoResult)
    /\ UNCHANGED teach_count

StopRobot ==
    /\ CanCall
    /\ \E reply \in Replies, plan \in FaultPlans(1) :
          LET c == [NoCall EXCEPT !.op = "stop_robot", !.reply = reply, !.plan = plan]
          IN Finish(c, stop_robot(Start(c)), NoResult)
    /\ UNCHANGED teach_count

SetSpeed ==
    /\ CanCall
    /\ \E speed \in Speeds, reply \in Replies, plan \in FaultPlans(1) :
          LET c == [NoCall EXCEPT !.op = "set_speed", !.speed = speed,
                                  !.reply = reply, !.plan = plan]
          IN Finish(c, set_speed(Start(c), speed), NoResult)
    /\ UNCHANGED teach_count

SetMoveCommand ==
    /\ CanCall
    /\ \E robot_location \in LocationNames \cup {"Nowhere"}, profile \in Profiles,
          grab \in BOOLEAN, release \in BOOLEAN :
          LET c == [NoCall EXCEPT !.op = "set_move_command", !.loc = robot_location,
                                  !.profile = profile, !.grab = grab,
                                  !.release = release]
          IN FinishCmd(c, set_move_command(location_dictionary, robot_location,
                                           profile, grab, release))
    /\ UNCHANGED teach_count

MoveSingle ==
    /\ CanCall
    /\ \E target_location \in MoveTargets, profile \in 0..3, grap \in BOOLEAN,
          release \in BOOLEAN, plan \in FaultPlans(1) :
          LET c == [NoCall EXCEPT !.op = "move_single", !.loc = target_location,
                                  !.profile = profile, !.grab = grap,
                                  !.release = release, !.reply = "0", !.plan = plan]
          IN Finish(c, move_single(Start(c), target_location, profile, grap, release),
                    NoResult)
    /\ UNCHANGED teach_count

PickPlateOt2 ==
    /\ CanCall
    /\ \E ot2_ID \in RoutineIDs, profile \in RoutineProfiles, plan \in FaultPlans(2) :
          LET c == [NoCall EXCEPT !.op = "pick_plate_ot2", !.id = ot2_ID,
                                  !.profile = profile, !.reply = "0", !.plan = plan]
          IN Finish(c, pick_plate_ot2(Start(c), ot2_ID, profile), NoResult)
    /\ UNCHANGED teach_count

DropPlateOt2 ==
    /\ CanCall
    /\ \E ot2_ID \in RoutineIDs, profile \in RoutineProfiles, plan \in FaultPlans(6) :
          LET c == [NoCall EXCEPT !.op = "drop_plate_ot2", !.id = ot2_ID,
                                  !.profile = profile, !.reply = "0", !.plan = plan]
          IN Finish(c, drop_plate_ot2(Start(c), ot2_ID, profile), NoResult)
    /\ UNCHANGED teach_count

PickPlateFromRack ==
    /\ CanCall
    /\ \E ot2_ID \in RoutineIDs, profile \in RoutineProfiles, plan \in FaultPlans(6) :
          LET c == [NoCall EXCEPT !.op = "pick_plate_from_rack", !.id = ot2_ID,
                                  !.profile = profile, !.reply = "0", !.plan = plan]
          IN Finish(c, pick_plate_from_rack(Start(c), ot2_ID, profile), NoResult)
    /\ UNCHANGED teach_count

DropCompletePlate ==
    /\ CanCall
    /\ \E profile \in RoutineProfiles, plan \in FaultPlans(4) :
          LET c == [NoCall EXCEPT !.op = "drop_complete_plate", !.profile = profile,
                                  !.reply = "0", !.plan = plan]
          IN Finish(c, drop_complete_plate(Start(c), profile), NoResult)
    /\ UNCHANGED teach_count

ProgramRobotTarget ==
    /\ CanCall
    /\ \E jr \in ProgramCalls, plan \in FaultPlans(9) :
          LET job == jr[1]
              robot_ID_list == jr[2]
              c == [NoCall EXCEPT !.op = "program_robot_target", !.job = job,
                                  !.ids = robot_ID_list, !.reply = "0", !.plan = plan]
          IN Finish(c, program_robot_target(Start(c), job, robot_ID_list), NoResult)
    /\ UNCHANGED teach_count

LocateRobot ==
    /\ CanCall
    /\ \E reply \in LocateReplies, plan \in FaultPlans(1) :
          LET c == [NoCall EXCEPT !.op = "locate_robot", !.reply = reply, !.plan = plan]
          IN FinishCoords(c, locate_robot(Start(c)))
    /\ UNCHANGED teach_count

TeachLocation ==
    /\ CanCall
    /\ teach_count < MaxTeach
    /\ \E location \in TeachLocations, robot_id \in TeachIDs,
          reply \in LocateReplies, plan \in FaultPlans(1) :
          LET c == [NoCall EXCEPT !.op = "teach_location", !.loc = location,
                                  !.rid = robot_id, !.reply = reply, !.plan = plan]
          IN Finish(c, teach_location(Start(c), location, robot_id), NoResult)
    /\ teach_count' = teach_count + 1

\* control is back with the caller, who may make the next call
Return ==
    /\ pc = "done"
    /\ pc' = "idle"
    /\ call' = NoCall
    /\ trace' = <<>>
    /\ log' = <<>>
    /\ result' = NoResult
    /\ UNCHANGED <<location_dictionary, open_sockets, teach_count>>

Next ==
    \/ StopRobot
    \/ CheckRobotHeartbeat
    \/ SetSpeed
    \/ SetProfile
    \/ SetMoveCommand
    \/ MoveSingle
    \/ PickPlateOt2
    \/ DropPlateOt2
    \/ PickPlateFromRack
    \/ DropCompletePlate
    \/ ProgramRobotTarget
    \/ LocateRobot
    \/ TeachLocation
    \/ SendCommand
    \/ EnablePower
    \/ AttachRobot
    \/ HomeRobot
    \/ InitializeRobot
    \/ Return

Spec == Init /\ [][Next]_vars

---------------------------------------------------------------------------
(* Vocabulary of the properties                                            *)

Done == pc = "done"

Events(kinds) == SelectSeq(trace, LAMBDA e : e.ev \in kinds)

\* the command lines handed to the robot, in order
Sent == [i \in 1..Len(Events({"send"})) |-> Events({"send"})[i].data]

\* the sockets the call created, and those it closed
Opened == {trace[i].sock : i \in {j \in 1..Len(trace) : trace[j].ev = "socket"}}

Closed == {trace[i].sock : i \in {j \in 1..Len(trace) : trace[j].ev = "close"}}

\* number of connect_robot calls made
Attempts == Len(Events({"socket", "socket_fail"}))

TransportFailed ==
    \E i \in 1..Len(trace) :
        trace[i].ev \in {"socket_fail", "connect_fail", "send_fail", "recv_fail"}

FailedAt(kind) == \E i \in 1..Len(trace) : trace[i].ev = kind

Logged(level, msg) == \E i \in 1..Len(log) : log[i] = LogRec(level, msg)

ErrorLogged == \E i \in 1..Len(log) : log[i].level = "error"

CommandOps ==
    {"send_command", "set_profile", "check_robot_heartbeat", "stop_robot",
     "set_speed", "move_single", "locate_robot", "pick_plate_ot2",
     "drop_plate_ot2", "pick_plate_from_rack", "drop_complete_plate"}

RoutineOps ==
    {"pick_plate_ot2", "drop_plate_ot2", "pick_plate_from_rack",
     "drop_complete_plate"}

\* the command list the routine called last runs over
RoutineList ==
    IF call.op = "pick_plate_ot2"
    THEN pick_up_commands(location_dictionary, call.id, call.profile)
    ELSE IF call.op = "drop_plate_ot2"
    THEN drop_commands(location_dictionary, call.id, call.profile)
    ELSE IF call.op = "pick_plate_from_rack"
    THEN rack_commands(location_dictionary, call.id, call.profile)
    ELSE complete_commands(location_dictionary, call.profile)

---------------------------------------------------------------------------
(* C1 *)

\* C1: when a command-issuing operation has finished, every socket it
\* opened has been closed, whether it succeeded or failed.
C1_EverySocketClosed ==
    (Done /\ call.op \in CommandOps) => Opened \subseteq Closed

---------------------------------------------------------------------------
(* C2 *)

\* C2: in a routine whose commands were built, a failure of one step (at
\* connect, send or receive) is logged and every step is still attempted, in
\* order: there are as many connection attempts as commands, and whatever is
\* sent on the k-th connection is the k-th command.
C2_FailureDoesNotAbort ==
    (Done /\ call.op \in RoutineOps /\ RoutineList.exc = "")
    => /\ Attempts = Len(RoutineList.cmds)
       /\ \A i \in 1..Len(trace) :
              trace[i].ev \in {"send", "send_fail"}
              => trace[i].data = RoutineList.cmds[trace[i].sock]
       /\ TransportFailed => ErrorLogged

---------------------------------------------------------------------------
(* C3 *)

\* the six commands of the documented pick sequence for station 1 with the
\* default profiles (fast = 2, slow = 1) and the configured locations
PickSequence1 ==
    <<"MoveJ 2 111 112 113 114 115 116\n",
      "MoveJ 2 121 122 123 124 125 126\n",
      "MoveJ 2 131 132 133 134 135 136\n",
      "MoveJ 1 131 132 133 134 120.0 136\n",
      "MoveJ 1 121 122 123 124 120.0 126\n",
      "MoveJ 1 111 112 113 114 120.0 116\n">>

\* C3: pick_plate_ot2(1) without a transport failure sends exactly the six
\* moves front, above_plate, pick_plate, then pick_plate, above_plate, front
\* with the grip override, in this order.
C3_PickSendsSix ==
    (Done /\ call.op = "pick_plate_ot2" /\ call.id = 1 /\ call.profile = 0
          /\ ~TransportFailed /\ location_dictionary = locations)
    => Sent = PickSequence1

---------------------------------------------------------------------------
(* C4 *)

\* the coordinate list locate_robot parsed from the reply of the call
Located == MapInt(Split(call.reply, " "))

\* C4: after teach_location("HomeALL") with no station id whose locate
\* succeeded, every element of the HomeALL entry equals the located element
\* at the same index.
C4_TeachHomeALL ==
    (Done /\ call.op = "teach_location" /\ call.loc = "HomeALL" /\ ~call.rid.some
          /\ ~TransportFailed /\ Located.ok
          /\ Len(Located.val) >= Len(location_dictionary["HomeALL"]))
    => \A i \in 1..Len(location_dictionary["HomeALL"]) :
           location_dictionary["HomeALL"][i] = Located.val[i]

---------------------------------------------------------------------------
(* C5 *)

---------------------------------------------------------------------------
(* C6 *)

\* C6: set_profile with one entry sends "Profile 1 ..." then "Profile 2 ..."
\* built from the two configured profiles and nothing else; with eight
\* entries it sends the one command "Profile 3 ..." built from the values
\* given; with any other number of entries it raises and sends nothing.
\* Under a transport failure no other command line, and no further one, is
\* ever handed to a socket.
C6_SetProfileCommands ==
    (Done /\ call.op = "set_profile")
    => LET n == Len(call.values)
           expected == IF n = 1
                       THEN <<"Profile 1 30 100 100 10 20 0 0 -1\n",
                              "Profile 2 90 200 200 20 40 0 0 -1\n">>
                       ELSE IF call.values = <<50, 150, 150, 15, 30, 0, 0, -1>>
                       THEN <<"Profile 3 50 150 150 15 30 0 0 -1\n">>
                       ELSE <<>>
       IN /\ n \in {1, 8} /\ ~TransportFailed
             => Sent = expected /\ result.kind = "returned"
          /\ n \notin {1, 8}
             => trace = <<>> /\ result.kind = "raised" /\ result.exc = "Exception"
          /\ Attempts <= Len(expected)
          /\ \A i \in 1..Len(trace) :
                 trace[i].ev \in {"send", "send_fail"}
                 => trace[i].data = expected[trace[i].sock]

C6_Witness ==
    /\ Done /\ call.op = "set_profile" /\ Len(call.values) = 1
    /\ ~TransportFailed /\ Len(Sent) = 2

---------------------------------------------------------------------------
(* C7 *)

\* the command line without its newline, split at the blanks
Words(cmd) == Split(SubSeq(cmd, 1, Len(cmd) - 1), " ")

\* C7: for a location of the table and a profile in {1,2,3}, set_move_command
\* returns "MoveJ <profile>" and one argument per joint value; the argument
\* at index i is the stored value at index i, except that with grab or
\* release the argument at index 4 is the override (120.0 for grab, else
\* 127.0 for release) and no other argument is replaced.
C7_MoveCommandFormat ==
    (Done /\ call.op = "set_move_command" /\ call.loc \in DOMAIN location_dictionary
          /\ call.profile \in {1, 2, 3})
    => LET joints == location_dictionary[call.loc]
           words == Words(result.cmd)
       IN /\ result.kind = "returned"
          /\ SubSeq(result.cmd, Len(result.cmd), Len(result.cmd)) = "\n"
          /\ Len(words) = 2 + Len(joints)
          /\ words[1] = "MoveJ"
          /\ words[2] = Str(call.profile)
          /\ \A i \in 1..Len(joints) :
                 words[2 + i] = IF i = 5 /\ call.grab THEN "120.0"
                                ELSE IF i = 5 /\ call.release THEN "127.0"
                                ELSE Str(joints[i])

C7_Witness ==
    /\ Done /\ call.op = "set_move_command" /\ call.loc = "OT2_1_pick_plate"
    /\ call.profile = 1 /\ call.grab /\ ~call.release
    /\ result.cmd = "MoveJ 1 131 132 133 134 120.0 136\n"

---------------------------------------------------------------------------
(* C8 *)

\* C8: initialize_robot without a transport failure issues 'hp 1', 'attach 1',
\* 'home', the two default profiles and 'nop', in this order, and then
\* reports that the initialization completed.
C8_InitializeOrder ==
    (Done /\ call.op = "initialize_robot" /\ ~TransportFailed)
    => /\ Sent = <<"hp 1\n", "attach 1\n", "home\n",
                   "Profile 1 30 100 100 10 20 0 0 -1\n",
                   "Profile 2 90 200 200 20 40 0 0 -1\n", "nop\n">>
       /\ Logged("info", "Robot initialization is successfully completed!")

---------------------------------------------------------------------------
(* C9 *)

LifecycleOps ==
    {"enable_power", "attach_robot", "home_robot", "set_profile",
     "check_robot_heartbeat", "stop_robot"}

SuccessReported ==
    \/ Logged("info", "Power enabled")
    \/ Logged("info", "Robot is alive")

\* C9: a lifecycle operation reports success only when the robot's reply is
\* exactly "0".
C9_SuccessOnlyOnZero ==
    (Done /\ call.op \in LifecycleOps /\ SuccessReported) => call.reply = "0"

---------------------------------------------------------------------------
(* C10 *)

\* the argument of the call is one the claim names invalid
InvalidInput ==
    \/ call.op = "set_profile" /\ Len(call.values) \notin {1, 8}
    \/ /\ call.op \in {"set_move_command", "move_single"}
       /\ call.profile \notin {1, 2, 3} \/ call.loc \notin DOMAIN location_dictionary
    \/ call.op \in RoutineOps /\ RoutineList.exc # ""
    \/ /\ call.op = "program_robot_target"
       /\ Upper(call.job) \notin {"TRANSFER", "FULL_TRANSFER"}

\* C10: an invalid input is rejected with an error raised to the caller and
\* no command is sent to the robot for it.
C10_InvalidInputRejected ==
    (Done /\ InvalidInput) => result.kind = "raised" /\ Sent = <<>>

---------------------------------------------------------------------------
(* C11 *)

\* the connections opened by earlier calls that were still open when the
\* call started
LeakedBefore == open_sockets - Cardinality(Opened \ Closed)

\* the connections of the call that are open just before its i-th event
OpenAt(i) ==
    {trace[j].sock : j \in {x \in 1..(i - 1) : trace[x].ev = "socket"}}
    \ {trace[j].sock : j \in {x \in 1..(i - 1) : trace[x].ev = "close"}}

\* the events of the given kinds on connection k
EventsOn(kinds, k) == SelectSeq(trace, LAMBDA e : e.ev \in kinds /\ e.sock = k)

\* C11: whenever a call opens a connection, no connection opened by it or by
\* an earlier call is still open, so at most one is open at any moment; and
\* a connection that is closed has carried exactly one command line and at
\* most one reply.
C11_OneConnectionAtATime ==
    Done => \A i \in 1..Len(trace) :
                /\ trace[i].ev = "socket"
                   => LeakedBefore = 0 /\ OpenAt(i) = {}
                /\ trace[i].ev = "close"
                   => /\ Len(EventsOn({"send"}, trace[i].sock)) = 1
                      /\ Len(EventsOn({"recv"}, trace[i].sock)) <= 1

---------------------------------------------------------------------------
(* C12 *)

\* the sub-key the claim gives for a station location name, "" for any other
StationSubKey(location) ==
    IF Upper(location) = "FRONT" THEN "_front"
    ELSE IF Upper(location) = "ABOVE_PLATE" THEN "_above_plate"
    ELSE IF Upper(location) = "PICK_PLATE" THEN "_pick_plate"
    ELSE IF Upper(location) = "PLATE_RACK" THEN "_plate_rack"
    ELSE ""

\* the names of the global set
GlobalNames == {"HOMEALL", "HOMEARM", "MOBILE_ROBOT", "TRASH"}

\* C12: a teach_location call with the id of a station of the table and one
\* of the four station location names changes no entry but
\* "OT2_<id>_<sub-key>", and when its locate read the six coordinates
\* "5 6 7 8 9 10" that entry holds exactly these coordinates afterwards; a
\* call with a station id and any other name, or with no station id and a
\* name outside the global set, changes no entry.
C12_TeachStationEntry ==
    [][(pc' = "done" /\ call'.op = "teach_location")
       => LET key == "OT2_" \o Str(call'.rid.val) \o StationSubKey(call'.loc)
          IN /\ ( /\ call'.rid.some
                  /\ StationSubKey(call'.loc) # ""
                  /\ key \in DOMAIN location_dictionary )
                => /\ DOMAIN location_dictionary' = DOMAIN location_dictionary
                   /\ \A other \in DOMAIN location_dictionary \ {key} :
                          location_dictionary'[other] = location_dictionary[other]
                   /\ (~TransportFailed' /\ call'.reply = "5 6 7 8 9 10")
                      => location_dictionary'[key] = <<5, 6, 7, 8, 9, 10>>
             /\ ( \/ call'.rid.some /\ StationSubKey(call'.loc) = ""
                  \/ ~call'.rid.some /\ Upper(call'.loc) \notin GlobalNames )
                => location_dictionary' = location_dictionary]_vars

\* a teach of the plate rack of station 1 that stored the located list
C12_Witness ==
    /\ Done /\ call.op = "teach_location" /\ call.rid = [some |-> TRUE, val |-> 1]
    /\ call.loc = "plate_rack" /\ call.reply = "5 6 7 8 9 10"
    /\ location_dictionary["OT2_1_plate_rack"] = <<5, 6, 7, 8, 9, 10>>
    /\ location_dictionary["OT2_1_pick_plate"] = <<131, 132, 133, 134, 135, 136>>

---------------------------------------------------------------------------
(* C13 *)

\* the six commands of the drop sequence for station 2 with the default
\* profiles: three moves with the grip override, the release at pick_plate,
\* two moves without override
DropSequence2 ==
    <<"MoveJ 1 211 212 213 214 120.0 216\n",
      "MoveJ 1 221 222 223 224 120.0 226\n",
      "MoveJ 1 231 232 233 234 120.0 236\n",
      "MoveJ 1 231 232 233 234 127.0 236\n",
      "MoveJ 2 221 222 223 224 225 226\n",
      "MoveJ 2 211 212 213 214 215 216\n">>

\* C13: program_robot_target("TRANSFER", [a, b]) for two stations of the
\* table, without a transport failure, sends exactly 13 move commands; for
\* [1, 2] they are the move to HomeALL with profile 2, the six commands of
\* pick_plate_ot2(1) and the six commands of drop_plate_ot2(2), in this order.
C13_TransferSendsThirteen ==
    (Done /\ call.op = "program_robot_target" /\ Upper(call.job) = "TRANSFER"
          /\ call.ids[1] \in StationIDs /\ call.ids[2] \in StationIDs
          /\ ~TransportFailed /\ location_dictionary = locations)
    => /\ Len(Sent) = 13
       /\ call.ids = <<1, 2>>
          => Sent = <<"MoveJ 2 11 12 13 14\n">> \o PickSequence1 \o DropSequence2

====
